---- MODULE Spec2Model ----
(***************************************************************************)
(* A model of the 6502 emulator: the clocked CPU pipeline (Cpu.ts), the    *)
(* Memory and its MMU facade, the InterruptController, the Clock's         *)
(* listener chain and the System's start/stop of a program run.            *)
(*                                                                         *)
(* One clock pulse visits the listeners CPU, Memory, InterruptController   *)
(* in that order; `phase` is the position in that chain.  Keystrokes and   *)
(* menu selections are host events: they run between clock pulses.         *)
(***************************************************************************)
EXTENDS Integers, Sequences, FiniteSets, TLC

\* ------------------------------------------------------------------ bounds
\* Longest waiting list of the InterruptController between two ticks.
MaxWaiting == 2
\* Programs started from the menu in one behaviour.
MaxRuns == 2
\* Cap of currentCyclePulseCount (it grows without bound in a stuck stage).
MaxPulseCount == 6
\* INC instructions completed in one run of the INC loop (SpecInc).
MaxIncs == 257

\* ------------------------------------------------------- program constants
\* `null` of writeAddress / writeValue.
Null == -1
\* `undefined`, the value of MEMORY[a] outside the array.
Undefined == -2
MemorySize == 65536
OpLDAimm == 169
OpLDAabs == 173
OpSTA == 141
OpTXA == 138
OpTYA == 152
OpADC == 109
OpLDXimm == 162
OpLDXabs == 174
OpTAX == 170
OpLDYimm == 160
OpLDYabs == 172
OpTAY == 168
OpNOP == 234
OpBRK == 0
OpCPX == 236
OpBNE == 208
OpINC == 238
OpSYS == 255
\* charCode of 'q', 'Q' and of another key
KeyLowerQ == 113
KeyUpperQ == 81
KeyOther == 120

VARIABLES
  \* Cpu
  aRegister, xRegister, yRegister, zRegister, cRegister, pcRegister,
  iRegister, opcode, operand, step, currentCyclePulseCount, fetchCount,
  currentFetch, writeAddress, writeValue, pendingInterrupt, useCarry,
  \* Memory
  MEMORY, MAR, MDR, isReadPending, isWritePending,
  \* MMU
  _PROGRAM, _LOAD_ADDRESS, _isLoading,
  \* InterruptController
  waitingInterrupts,
  \* System, Clock, Keyboard, host process
  running, currentProgram, programOutput, consoleOutput, isRunning,
  silentMode, crashed, phase,
  \* history of the run, kept for the properties
  runs, loadedCode, loadTicks, loadSeenFalse, committed, commitNow,
  cpuError, lastTrigger, mdrUse, qChecks, incs, prevInstr, cycle, finals,
  opcodeAddress, thisRun, freshRun

cpuVars == <<aRegister, xRegister, yRegister, zRegister, cRegister, pcRegister,
             iRegister, opcode, operand, step, currentCyclePulseCount,
             fetchCount, currentFetch, writeAddress, writeValue,
             pendingInterrupt, useCarry>>
memVars == <<MEMORY, MAR, MDR, isReadPending, isWritePending>>
mmuVars == <<_PROGRAM, _LOAD_ADDRESS, _isLoading>>
sysVars == <<running, currentProgram, programOutput, consoleOutput, isRunning,
             silentMode, crashed>>
histVars == <<runs, loadedCode, loadTicks, loadSeenFalse, committed,
              commitNow, cpuError, lastTrigger, mdrUse, qChecks, incs,
              prevInstr, cycle, finals, opcodeAddress, thisRun, freshRun>>
vars == <<cpuVars, memVars, mmuVars, waitingInterrupts, sysVars, phase, histVars>>

\* ---------------------------------------------------------------- Memory
\* MEMORY is the Uint8Array of 65536 cells, all 0 at first; the model keeps
\* the cells that are not 0.
Byte == 0..255
Address == 0..(MemorySize - 1)

ZeroMemory == [a \in {} |-> 0]

InMemory(a) == a \in Address

\* MEMORY[a]: a byte for an index of the array, undefined outside it.
Cell(mem, a) ==
  IF ~InMemory(a) THEN Undefined
  ELSE IF a \in DOMAIN mem THEN mem[a] ELSE 0

\* MEMORY[a] = v on a Uint8Array: the value is stored modulo 256; a store
\* outside the array is ignored.
StoreCell(mem, a, v) ==
  IF ~InMemory(a) THEN mem
  ELSE LET b == v % 256
           d == IF b = 0 THEN DOMAIN mem \ {a} ELSE DOMAIN mem \cup {a}
       IN [x \in d |-> IF x = a THEN b ELSE mem[x]]

\* The memory holding `code` from address 0 and 0 elsewhere.
RECURSIVE Image(_, _)
Image(code, n) ==
  IF n = 0 THEN ZeroMemory ELSE StoreCell(Image(code, n - 1), n - 1, code[n])

\* ------------------------------------------------------------- Interrupt
NoInterrupt == [irqNumber |-> 0, priority |-> 0, deviceName |-> "null", data |-> 0]

\* The interrupt the Keyboard sends for a key.
KeyInterrupt(key) ==
  [irqNumber |-> 1, priority |-> 1, deviceName |-> "Keyboard", data |-> key]

\* ------------------------------------------------------------------ Ascii
AsciiTable == (9..13) \cup (32..126)

\* The characters of the string "undefined", which += appends for undefined.
UndefinedText == <<117, 110, 100, 101, 102, 105, 110, 101, 100>>

\* encodeAscii, as the characters that `programOutput += encodeAscii(b)` adds.
encodeAscii(byte) == IF byte \in AsciiTable THEN <<byte>> ELSE UndefinedText

\* value.toString() of a byte: its decimal digits, as characters.
RECURSIVE toString(_)
toString(value) ==
  IF value < 10 THEN <<48 + value>>
  ELSE Append(toString(value \div 10), 48 + (value % 10))

\* -------------------------------------------------- the CPU's view: a record
\* The CPU's fields and what a CPU pulse can reach through MMU and System.
\* prevTrigger is the address whose read the CPU triggered on its previous
\* pulse (Null when it triggered none); thrown marks an exception on its way
\* to the catch of pulse(); ret is the micro-op's return value.
NoUse == [used |-> FALSE, addr |-> Null, value |-> 0, pending |-> FALSE]

Machine ==
  [aRegister |-> aRegister, xRegister |-> xRegister, yRegister |-> yRegister,
   zRegister |-> zRegister, cRegister |-> cRegister, pcRegister |-> pcRegister,
   iRegister |-> iRegister, opcode |-> opcode, operand |-> operand,
   step |-> step, currentCyclePulseCount |-> currentCyclePulseCount,
   fetchCount |-> fetchCount, currentFetch |-> currentFetch,
   writeAddress |-> writeAddress, writeValue |-> writeValue,
   pendingInterrupt |-> pendingInterrupt, useCarry |-> useCarry,
   MAR |-> MAR, MDR |-> MDR, isReadPending |-> isReadPending,
   isWritePending |-> isWritePending, isLoading |-> _isLoading,
   waitingInterrupts |-> waitingInterrupts,
   running |-> running, currentProgram |-> currentProgram,
   programOutput |-> programOutput, consoleOutput |-> consoleOutput,
   isRunning |-> isRunning, silentMode |-> silentMode,
   prevTrigger |-> lastTrigger, lastTrigger |-> Null, mdrUse |-> NoUse,
   cpuError |-> "", thrown |-> FALSE, ret |-> FALSE]

\* ------------------------------------------------------------------- MMU
triggerRead(m, address) ==
  [m EXCEPT !.MAR = address, !.isReadPending = TRUE, !.lastTrigger = address]

writeImmediate(m, address, value) ==
  [m EXCEPT !.MAR = address, !.MDR = value, !.isWritePending = TRUE]

\* MMU.getMDR() called by the CPU; the use is recorded with the read it answers.
getMDR(m) ==
  [m EXCEPT !.mdrUse = [used |-> TRUE, addr |-> m.prevTrigger, value |-> m.MDR,
                        pending |-> m.isReadPending]]

\* A variant that never reports a load in progress.
isProgramLoadingNever(m) == FALSE

isProgramLoading(m) == m.isLoading

\* ---------------------------------------------------------------- System
NoProgram == [name |-> "null", code |-> <<>>]

appendProgramOutput(m, output) ==
  [m EXCEPT !.programOutput = m.programOutput \o output]

\* handleProgramCompletion: print the output, clear it, silence the keyboard,
\* clear the waiting interrupts.
handleProgramCompletion(m) ==
  [m EXCEPT !.consoleOutput = m.programOutput, !.programOutput = <<>>,
            !.silentMode = TRUE, !.waitingInterrupts = <<>>, !.running = FALSE]

stopSystem(m) ==
  IF ~m.running THEN m
  ELSE LET s == [m EXCEPT !.running = FALSE, !.isRunning = FALSE, !.silentMode = TRUE]
       IN IF s.currentProgram # NoProgram
          THEN [handleProgramCompletion(s) EXCEPT !.currentProgram = NoProgram]
          ELSE s

\* ---------------------------------------------------- Cpu: the micro-ops
\* (operand[1] << 8) | operand[0]
OperandAddress(m) == m.operand[1] * 256 + m.operand[0]

\* JavaScript truthiness of a number or null, as `a && b` tests it.
Truthy(v) == v # Null /\ v # 0

\* A variant that takes MDR on the pulse that triggers the read.
loadCaseHelperSamePulse(m, immCaseOpcode, reg) ==
  IF m.opcode = immCaseOpcode
  THEN [m EXCEPT ![reg] = m.operand[0] % 256, !.ret = FALSE]
  ELSE IF m.currentCyclePulseCount = 1
       THEN [getMDR(triggerRead(m, OperandAddress(m)))
               EXCEPT ![reg] = m.MDR % 256, !.ret = FALSE]
       ELSE [m EXCEPT !.ret = TRUE]

\* A variant that sets Z when the loaded value is 0.
loadCaseHelperSetsZ(m, immCaseOpcode, reg) ==
  IF m.opcode = immCaseOpcode
  THEN [m EXCEPT ![reg] = m.operand[0] % 256,
                 !.zRegister = (m.operand[0] % 256 = 0), !.ret = FALSE]
  ELSE IF m.currentCyclePulseCount = 1
       THEN [triggerRead(m, OperandAddress(m)) EXCEPT !.ret = TRUE]
       ELSE IF m.currentCyclePulseCount = 2
            THEN [getMDR(m) EXCEPT ![reg] = m.MDR % 256,
                                   !.zRegister = (m.MDR % 256 = 0),
                                   !.ret = FALSE]
            ELSE [m EXCEPT !.ret = TRUE]

loadCaseHelper(m, immCaseOpcode, reg) ==
  IF m.opcode = immCaseOpcode
  THEN [m EXCEPT ![reg] = m.operand[0] % 256, !.ret = FALSE]
  ELSE IF m.currentCyclePulseCount = 1
       THEN [triggerRead(m, OperandAddress(m)) EXCEPT !.ret = TRUE]
       ELSE IF m.currentCyclePulseCount = 2
            THEN [getMDR(m) EXCEPT ![reg] = m.MDR % 256, !.ret = FALSE]
            ELSE [m EXCEPT !.ret = TRUE]

LDA(m) == loadCaseHelper(m, OpLDAimm, "aRegister")

LDX(m) == loadCaseHelper(m, OpLDXimm, "xRegister")

\* A variant that loads into X.
LDYLoadsX(m) == loadCaseHelper(m, OpLDYimm, "xRegister")

LDY(m) == loadCaseHelper(m, OpLDYimm, "yRegister")

\* A variant that reads the operand's two bytes high byte first.
STAHighByteFirst(m) ==
  IF m.currentCyclePulseCount = 1
  THEN [writeImmediate(m, m.operand[0] * 256 + m.operand[1], m.aRegister)
          EXCEPT !.ret = TRUE]
  ELSE [m EXCEPT !.ret = FALSE]

STA(m) ==
  IF m.currentCyclePulseCount = 1
  THEN [writeImmediate(m, OperandAddress(m), m.aRegister) EXCEPT !.ret = TRUE]
  ELSE [m EXCEPT !.ret = FALSE]

TXA(m) == [m EXCEPT !.aRegister = m.xRegister % 256, !.ret = FALSE]

TYA(m) == [m EXCEPT !.aRegister = m.yRegister % 256, !.ret = FALSE]

\* A variant that moves A to X, leaving 0 in A.
TAXClearsA(m) ==
  [m EXCEPT !.xRegister = m.aRegister % 256, !.aRegister = 0, !.ret = FALSE]

TAX(m) == [m EXCEPT !.xRegister = m.aRegister % 256, !.ret = FALSE]

TAY(m) == [m EXCEPT !.yRegister = m.aRegister % 256, !.ret = FALSE]

\* A variant that never adds the carry.
ADCIgnoresCarry(m) ==
  IF m.currentCyclePulseCount = 1
  THEN [triggerRead(m, OperandAddress(m)) EXCEPT !.ret = TRUE]
  ELSE IF m.currentCyclePulseCount = 2
       THEN LET sum == m.aRegister + m.MDR
            IN [getMDR(m) EXCEPT !.cRegister = sum > 255,
                                 !.aRegister = sum % 256, !.ret = FALSE]
       ELSE [m EXCEPT !.ret = FALSE]

\* A variant that keeps the whole sum in A.
ADCNoMask(m) ==
  IF m.currentCyclePulseCount = 1
  THEN [triggerRead(m, OperandAddress(m)) EXCEPT !.ret = TRUE]
  ELSE IF m.currentCyclePulseCount = 2
       THEN LET sum == m.aRegister + m.MDR
                       + (IF m.useCarry /\ m.cRegister THEN 1 ELSE 0)
            IN [getMDR(m) EXCEPT !.cRegister = sum > 255,
                                 !.aRegister = sum, !.ret = FALSE]
       ELSE [m EXCEPT !.ret = FALSE]

ADC(m) ==
  IF m.currentCyclePulseCount = 1
  THEN [triggerRead(m, OperandAddress(m)) EXCEPT !.ret = TRUE]
  ELSE IF m.currentCyclePulseCount = 2
       THEN LET sum == m.aRegister + m.MDR
                       + (IF m.useCarry /\ m.cRegister THEN 1 ELSE 0)
            IN [getMDR(m) EXCEPT !.cRegister = sum > 255,
                                 !.aRegister = sum % 256, !.ret = FALSE]
       ELSE [m EXCEPT !.ret = FALSE]

NOP(m) == [m EXCEPT !.ret = FALSE]

BRK(m) == [stopSystem(m) EXCEPT !.ret = FALSE]

\* A variant that sets C only when X is greater.
CPXStrictCarry(m) ==
  IF m.currentCyclePulseCount = 1
  THEN [triggerRead(m, OperandAddress(m)) EXCEPT !.ret = TRUE]
  ELSE IF m.currentCyclePulseCount = 2
       THEN LET result == (m.xRegister - m.MDR) % 256
            IN [getMDR(m) EXCEPT !.zRegister = (result = 0),
                                 !.cRegister = (m.xRegister > m.MDR),
                                 !.ret = FALSE]
       ELSE [m EXCEPT !.ret = FALSE]

CPX(m) ==
  IF m.currentCyclePulseCount = 1
  THEN [triggerRead(m, OperandAddress(m)) EXCEPT !.ret = TRUE]
  ELSE IF m.currentCyclePulseCount = 2
       THEN LET result == (m.xRegister - m.MDR) % 256
            IN [getMDR(m) EXCEPT !.zRegister = (result = 0),
                                 !.cRegister = (m.xRegister >= m.MDR),
                                 !.ret = FALSE]
       ELSE [m EXCEPT !.ret = FALSE]

\* A variant that never branches.
BNENeverTaken(m) == [m EXCEPT !.ret = FALSE]

\* A variant that adds the operand as an unsigned byte.
BNEUnsigned(m) ==
  IF ~m.zRegister
  THEN [m EXCEPT !.pcRegister = (m.pcRegister + m.operand[0]) % 65536,
                 !.ret = FALSE]
  ELSE [m EXCEPT !.ret = FALSE]

BNE(m) ==
  IF ~m.zRegister
  THEN LET offset == m.operand[0]
           signedOffset == IF offset < 128 THEN offset ELSE offset - 256
       IN [m EXCEPT !.pcRegister = (m.pcRegister + signedOffset) % 65536,
                    !.ret = FALSE]
  ELSE [m EXCEPT !.ret = FALSE]

INC(m) ==
  IF m.currentCyclePulseCount = 1
  THEN [triggerRead(m, OperandAddress(m)) EXCEPT !.ret = TRUE]
  ELSE IF m.currentCyclePulseCount = 2
       THEN [getMDR(m) EXCEPT !.writeValue = (m.MDR + 1) % 256,
                              !.writeAddress = OperandAddress(m), !.ret = FALSE]
       ELSE [m EXCEPT !.ret = FALSE]

\* The two string prints of SYS, which differ in the start address only.
SYSString(m, start) ==
  IF m.currentCyclePulseCount = 1
  THEN [triggerRead([m EXCEPT !.writeAddress = start], start) EXCEPT !.ret = TRUE]
  ELSE LET u == getMDR(m)
           currentChar == m.MDR
       IN IF currentChar # 0
          THEN [triggerRead([appendProgramOutput(u, encodeAscii(currentChar))
                               EXCEPT !.writeAddress = m.writeAddress + 1],
                            m.writeAddress + 1)
                  EXCEPT !.ret = TRUE]
          ELSE [u EXCEPT !.ret = FALSE]

\* A variant that prints X when X is no system call.
SYSInvalidPrints(m) ==
  IF m.xRegister = 1
  THEN [appendProgramOutput(m, toString(m.yRegister)) EXCEPT !.ret = FALSE]
  ELSE IF m.xRegister = 2 THEN SYSString(m, m.yRegister)
  ELSE IF m.xRegister = 3 THEN SYSString(m, OperandAddress(m))
  ELSE [appendProgramOutput(m, toString(m.xRegister)) EXCEPT !.ret = FALSE]

SYS(m) ==
  IF m.xRegister = 1
  THEN [appendProgramOutput(m, toString(m.yRegister)) EXCEPT !.ret = FALSE]
  ELSE IF m.xRegister = 2 THEN SYSString(m, m.yRegister)
  ELSE IF m.xRegister = 3 THEN SYSString(m, OperandAddress(m))
  ELSE [m EXCEPT !.ret = FALSE]

\* ------------------------------------------------- Cpu: decode and pipeline
setupDecode(m, numOperands, currentInstruction) ==
  [m EXCEPT !.fetchCount = numOperands, !.iRegister = currentInstruction]

KnownOpcodes ==
  {OpLDAimm, OpLDAabs, OpSTA, OpTXA, OpTYA, OpADC, OpLDXimm, OpLDXabs, OpTAX,
   OpLDYimm, OpLDYabs, OpTAY, OpNOP, OpBRK, OpCPX, OpBNE, OpINC, OpSYS}

\* InstructionSet.decodeMapper(...)[opcode](), for an opcode of the table.
decodeMapper(m) ==
  CASE m.opcode = OpLDAimm -> setupDecode(m, 1, "LDA")
    [] m.opcode = OpLDAabs -> setupDecode(m, 2, "LDA")
    [] m.opcode = OpSTA    -> setupDecode(m, 2, "STA")
    [] m.opcode = OpTXA    -> setupDecode(m, 0, "TXA")
    [] m.opcode = OpTYA    -> setupDecode(m, 0, "TYA")
    [] m.opcode = OpADC    -> setupDecode(m, 2, "ADC")
    [] m.opcode = OpLDXimm -> setupDecode(m, 1, "LDX")
    [] m.opcode = OpLDXabs -> setupDecode(m, 2, "LDX")
    [] m.opcode = OpTAX    -> setupDecode(m, 0, "TAX")
    [] m.opcode = OpLDYimm -> setupDecode(m, 1, "LDY")
    [] m.opcode = OpLDYabs -> setupDecode(m, 2, "LDY")
    [] m.opcode = OpTAY    -> setupDecode(m, 0, "TAY")
    [] m.opcode = OpNOP    -> setupDecode(m, 0, "NOP")
    [] m.opcode = OpBRK    -> setupDecode(m, 0, "BRK")
    [] m.opcode = OpCPX    -> setupDecode(m, 2, "CPX")
    [] m.opcode = OpBNE    -> setupDecode(m, 1, "BNE")
    [] m.opcode = OpINC    -> setupDecode(m, 2, "INC")
    [] m.opcode = OpSYS    -> IF m.xRegister = 3 THEN setupDecode(m, 2, "SYS")
                              ELSE setupDecode(m, 0, "SYS")

\* this.executeFunction(): the micro-op bound by setupDecode together with
\* iRegister (reset() clears both together).
executeFunction(m) ==
  CASE m.iRegister = "LDA" -> LDA(m)
    [] m.iRegister = "STA" -> STA(m)
    [] m.iRegister = "TXA" -> TXA(m)
    [] m.iRegister = "TYA" -> TYA(m)
    [] m.iRegister = "ADC" -> ADC(m)
    [] m.iRegister = "LDX" -> LDX(m)
    [] m.iRegister = "TAX" -> TAX(m)
    [] m.iRegister = "LDY" -> LDY(m)
    [] m.iRegister = "TAY" -> TAY(m)
    [] m.iRegister = "NOP" -> NOP(m)
    [] m.iRegister = "BRK" -> BRK(m)
    [] m.iRegister = "CPX" -> CPX(m)
    [] m.iRegister = "BNE" -> BNE(m)
    [] m.iRegister = "INC" -> INC(m)
    [] m.iRegister = "SYS" -> SYS(m)

\* A variant that loads every operand byte into operand[0].
handleAdditionalFetchesSameSlot(m0) ==
  LET m == [m0 EXCEPT !.currentCyclePulseCount = m0.currentCyclePulseCount + 1]
  IN IF m.currentCyclePulseCount = 1 THEN triggerRead(m, m.pcRegister)
     ELSE IF m.currentCyclePulseCount = 2
          THEN LET f == [getMDR(m) EXCEPT !.operand[0] = m.MDR,
                                          !.pcRegister = m.pcRegister + 1,
                                          !.currentFetch = m.currentFetch + 1,
                                          !.currentCyclePulseCount = 0]
               IN IF f.currentFetch >= f.fetchCount
                  THEN [f EXCEPT !.fetchCount = 0, !.currentFetch = 0]
                  ELSE f
          ELSE m

\* A variant that tests currentFetch > fetchCount for the last byte.
handleAdditionalFetchesOffByOne(m0) ==
  LET m == [m0 EXCEPT !.currentCyclePulseCount = m0.currentCyclePulseCount + 1]
  IN IF m.currentCyclePulseCount = 1 THEN triggerRead(m, m.pcRegister)
     ELSE IF m.currentCyclePulseCount = 2
          THEN LET f == [getMDR(m) EXCEPT !.operand[m.currentFetch] = m.MDR,
                                          !.pcRegister = m.pcRegister + 1,
                                          !.currentFetch = m.currentFetch + 1,
                                          !.currentCyclePulseCount = 0]
               IN IF f.currentFetch > f.fetchCount
                  THEN [f EXCEPT !.fetchCount = 0, !.currentFetch = 0]
                  ELSE f
          ELSE m

handleAdditionalFetches(m0) ==
  LET m == [m0 EXCEPT !.currentCyclePulseCount = m0.currentCyclePulseCount + 1]
  IN IF m.currentCyclePulseCount = 1 THEN triggerRead(m, m.pcRegister)
     ELSE IF m.currentCyclePulseCount = 2
          THEN LET f == [getMDR(m) EXCEPT !.operand[m.currentFetch] = m.MDR,
                                          !.pcRegister = m.pcRegister + 1,
                                          !.currentFetch = m.currentFetch + 1,
                                          !.currentCyclePulseCount = 0]
               IN IF f.currentFetch >= f.fetchCount
                  THEN [f EXCEPT !.fetchCount = 0, !.currentFetch = 0]
                  ELSE f
          ELSE m

\* A variant that takes the opcode on the pulse that triggers its read.
FetchStageOnePulse(m) ==
  IF m.currentCyclePulseCount = 1
  THEN [getMDR(triggerRead(m, m.pcRegister))
          EXCEPT !.opcode = m.MDR, !.pcRegister = m.pcRegister + 1,
                 !.currentCyclePulseCount = 0, !.step = "Decode"]
  ELSE m

FetchStage(m) ==
  IF m.currentCyclePulseCount = 1 THEN triggerRead(m, m.pcRegister)
  ELSE IF m.currentCyclePulseCount = 2
       THEN [getMDR(m) EXCEPT !.opcode = m.MDR,
                              !.pcRegister = m.pcRegister + 1,
                              !.currentCyclePulseCount = 0, !.step = "Decode"]
       ELSE m

DecodeStage(m) ==
  IF m.opcode \in KnownOpcodes
  THEN [decodeMapper(m) EXCEPT !.currentCyclePulseCount = 0, !.step = "Execute"]
  ELSE [m EXCEPT !.thrown = TRUE, !.cpuError = "Unknown Opcode"]

\* A variant that goes back to Fetch when there is nothing to write back.
ExecuteStageSkipsInterruptCheck(m) ==
  IF m.iRegister = "NAN"
  THEN [m EXCEPT !.thrown = TRUE, !.cpuError = "Execute function not set"]
  ELSE LET e == executeFunction(m)
       IN IF ~e.ret
          THEN [e EXCEPT !.currentCyclePulseCount = 0,
                         !.step = IF Truthy(e.writeAddress) /\ Truthy(e.writeValue)
                                  THEN "Writeback" ELSE "Fetch"]
          ELSE e

ExecuteStage(m) ==
  IF m.iRegister = "NAN"
  THEN [m EXCEPT !.thrown = TRUE, !.cpuError = "Execute function not set"]
  ELSE LET e == executeFunction(m)
       IN IF ~e.ret
          THEN [e EXCEPT !.currentCyclePulseCount = 0,
                         !.step = IF Truthy(e.writeAddress) /\ Truthy(e.writeValue)
                                  THEN "Writeback" ELSE "InterruptCheck"]
          ELSE e

WritebackStage(m0) ==
  LET m == [m0 EXCEPT !.currentCyclePulseCount = 0]
      w == IF m.writeAddress # Null \/ m.writeValue # Null
           THEN [writeImmediate(m, m.writeAddress, m.writeValue)
                   EXCEPT !.writeAddress = Null, !.writeValue = Null]
           ELSE m
  IN [w EXCEPT !.step = "InterruptCheck"]

\* A variant that takes the byte of q from any device.
IsQuitKeyAnyDevice(interrupt) ==
  /\ interrupt # NoInterrupt
  /\ interrupt.data \in {KeyLowerQ, KeyUpperQ}

IsQuitKey(interrupt) ==
  /\ interrupt # NoInterrupt
  /\ interrupt.deviceName = "Keyboard"
  /\ interrupt.data \in {KeyLowerQ, KeyUpperQ}

InterruptCheckStage(m) ==
  IF IsQuitKey(m.pendingInterrupt)
  THEN [stopSystem(m) EXCEPT !.pendingInterrupt = NoInterrupt]
  ELSE [m EXCEPT !.pendingInterrupt = NoInterrupt,
                 !.currentCyclePulseCount = 0, !.step = "Fetch"]

\* A variant that runs the pipeline whether or not the system is running.
pulseIgnoresRunning(m) ==
  IF isProgramLoading(m) THEN m
  ELSE IF m.fetchCount > 0 THEN handleAdditionalFetches(m)
  ELSE LET c == [m EXCEPT !.currentCyclePulseCount = m.currentCyclePulseCount + 1]
       IN CASE c.step = "Fetch" -> FetchStage(c)
            [] c.step = "Decode" -> DecodeStage(c)
            [] c.step = "Execute" -> ExecuteStage(c)
            [] c.step = "Writeback" -> WritebackStage(c)
            [] c.step = "InterruptCheck" -> InterruptCheckStage(c)
            [] OTHER -> c

\* Cpu.pulse(): one clock pulse of the CPU, its catch included.
pulse(m) ==
  IF ~m.running THEN m
  ELSE IF isProgramLoading(m) THEN m
  ELSE IF m.fetchCount > 0 THEN handleAdditionalFetches(m)
  ELSE LET c == [m EXCEPT !.currentCyclePulseCount = m.currentCyclePulseCount + 1]
       IN CASE c.step = "Fetch" -> FetchStage(c)
            [] c.step = "Decode" -> DecodeStage(c)
            [] c.step = "Execute" -> ExecuteStage(c)
            [] c.step = "Writeback" -> WritebackStage(c)
            [] c.step = "InterruptCheck" -> InterruptCheckStage(c)
            [] OTHER -> c

\* A variant that keeps an interrupt already latched.
setInterruptKeepsLatched(pending, interrupt) ==
  IF pending # NoInterrupt THEN pending
  ELSE IF interrupt # NoInterrupt THEN interrupt ELSE pending

\* Cpu.setInterrupt
setInterrupt(pending, interrupt) ==
  IF interrupt # NoInterrupt THEN interrupt ELSE pending

\* The arbitration loop of InterruptController.pulse over the waiting list.
RECURSIVE Arbitrate(_, _, _)
Arbitrate(waiting, runningPriority, runningInterrupt) ==
  IF waiting = <<>> THEN runningInterrupt
  ELSE IF Head(waiting).priority > runningPriority
       THEN Arbitrate(Tail(waiting), Head(waiting).priority, Head(waiting))
       ELSE Arbitrate(Tail(waiting), runningPriority, runningInterrupt)

\* ------------------------------------------------- Memory and MMU: a record
\* Memory's fields and the MMU's, which Memory.pulse reaches through
\* mmu.loadProgram().
Bus ==
  [MEMORY |-> MEMORY, MAR |-> MAR, MDR |-> MDR, isReadPending |-> isReadPending,
   isWritePending |-> isWritePending, PROGRAM |-> _PROGRAM,
   LOAD_ADDRESS |-> _LOAD_ADDRESS, isLoading |-> _isLoading,
   crashed |-> crashed, wrote |-> FALSE]

\* A variant that leaves the cells as they are.
MemoryResetKeepsCells(b) == b

\* Memory.reset() / init()
MemoryReset(b) == [b EXCEPT !.MEMORY = ZeroMemory]

\* A variant that ends the load as soon as the last byte is queued.
loadProgramEager(b) ==
  IF Len(b.PROGRAM) > 0
  THEN [writeImmediate(b, b.LOAD_ADDRESS, Head(b.PROGRAM))
          EXCEPT !.PROGRAM = Tail(b.PROGRAM),
                 !.LOAD_ADDRESS = b.LOAD_ADDRESS + 1,
                 !.isLoading = Len(Tail(b.PROGRAM)) > 0]
  ELSE [b EXCEPT !.isLoading = FALSE]

\* MMU.loadProgram
loadProgram(b) ==
  IF Len(b.PROGRAM) > 0
  THEN [writeImmediate(b, b.LOAD_ADDRESS, Head(b.PROGRAM))
          EXCEPT !.PROGRAM = Tail(b.PROGRAM),
                 !.LOAD_ADDRESS = b.LOAD_ADDRESS + 1, !.isLoading = TRUE]
  ELSE [b EXCEPT !.isLoading = FALSE]

\* MMU.reset
MMUReset(b) ==
  MemoryReset([b EXCEPT !.PROGRAM = <<>>, !.LOAD_ADDRESS = 0, !.isLoading = FALSE])

\* MMU.setProgram
setProgram(b, program) ==
  loadProgram([MMUReset(b) EXCEPT !.PROGRAM = program, !.LOAD_ADDRESS = 0,
                                  !.isLoading = TRUE])

\* Memory.executeWrite.  Its last log line formats MEMORY[MAR], which is
\* undefined outside the array: hexLog then throws, nothing catches it on
\* the way out of Clock.pulse, and the host process ends.
executeWrite(b) ==
  IF InMemory(b.MAR)
  THEN [b EXCEPT !.MEMORY = StoreCell(b.MEMORY, b.MAR, b.MDR), !.wrote = TRUE]
  ELSE [b EXCEPT !.crashed = TRUE]

\* A variant that leaves MDR as it is.
executeReadKeepsMDR(b) ==
  IF InMemory(b.MAR) THEN b ELSE [b EXCEPT !.MDR = Undefined, !.crashed = TRUE]

\* Memory.executeRead.  Its first log line formats MDR: the same throw when
\* MEMORY[MAR] is undefined.
executeRead(b) ==
  IF InMemory(b.MAR)
  THEN [b EXCEPT !.MDR = Cell(b.MEMORY, b.MAR)]
  ELSE [b EXCEPT !.MDR = Undefined, !.crashed = TRUE]

\* A variant that ends the load on the pulse after the last byte's commit.
MemoryWritePartLateEnd(b) ==
  IF b.isWritePending
  THEN LET w == executeWrite(b)
       IN IF w.crashed THEN w
          ELSE LET c == [w EXCEPT !.isWritePending = FALSE]
               IN IF isProgramLoading(c) /\ Len(c.PROGRAM) > 0
                  THEN loadProgram(c) ELSE c
  ELSE IF isProgramLoading(b) THEN loadProgram(b) ELSE b

\* Memory.pulse: the pending write, then the pending read.
MemoryWritePart(b) ==
  IF b.isWritePending
  THEN LET w == executeWrite(b)
       IN IF w.crashed THEN w
          ELSE LET c == [w EXCEPT !.isWritePending = FALSE]
               IN IF isProgramLoading(c) THEN loadProgram(c) ELSE c
  ELSE b

\* A variant that leaves the read flag set after the read.
MemoryReadPartKeepsFlag(b) ==
  IF b.crashed THEN b
  ELSE IF b.isReadPending THEN executeRead(b) ELSE b

MemoryReadPart(b) ==
  IF b.crashed THEN b
  ELSE IF b.isReadPending
       THEN LET r == executeRead(b)
            IN IF r.crashed THEN r ELSE [r EXCEPT !.isReadPending = FALSE]
       ELSE b

MemoryPulseResult(b) == MemoryReadPart(MemoryWritePart(b))

\* --------------------------------------------------------------- programs
\* LDA #$05, TAX, LDA #$03, TXA, BRK
BasicTransfer ==
  [name |-> "Basic transfer",
   code |-> <<OpLDAimm, 5, OpTAX, OpLDAimm, 3, OpTXA, OpBRK>>]

\* LDX #$05, CPX $0020, BNE +2, NOP, NOP, BRK
BranchTaken ==
  [name |-> "Branch taken",
   code |-> <<OpLDXimm, 5, OpCPX, 32, 0, OpBNE, 2, OpNOP, OpNOP, OpBRK>>]

\* LDA #$01, then the byte 0x02, which is no opcode
UnknownOpcode ==
  [name |-> "Unknown opcode", code |-> <<OpLDAimm, 1, 2, OpNOP, OpBRK>>]

\* BNE -3 at address 0: the branch target is 0xFFFF
BranchBack == [name |-> "Branch back", code |-> <<OpBNE, 253>>]

\* LDA #$EA, STA $FFFF, BNE -8: runs the NOP stored in the last cell
RunOffEnd ==
  [name |-> "Run off the end",
   code |-> <<OpLDAimm, OpNOP, OpSTA, 255, 255, OpBNE, 248>>]

\* LDA #b, STA a, LDA a, BRK
StoreLoad(b, a) ==
  [name |-> "Store and load",
   code |-> <<OpLDAimm, b, OpSTA, a % 256, a \div 256,
              OpLDAabs, a % 256, a \div 256, OpBRK>>]

\* LDA #b, STA a, TXA, LDA a, BRK: the store and the load are not adjacent
StoreThenLoad(b, a) ==
  [name |-> "Store, transfer, load",
   code |-> <<OpLDAimm, b, OpSTA, a % 256, a \div 256, OpTXA,
              OpLDAabs, a % 256, a \div 256, OpBRK>>]

\* LDA #v, STA a, then INC a, BNE -5 for ever (Z is never set)
IncLoop(v, a) ==
  [name |-> "INC loop",
   code |-> <<OpLDAimm, v, OpSTA, a % 256, a \div 256,
              OpINC, a % 256, a \div 256, OpBNE, 251>>]

\* LDA #$FF, STA $0020, LDA #$02, ADC $0020, LDY $0020, LDX #$01, SYS, BRK
AddAndPrint ==
  [name |-> "ADC and print",
   code |-> <<OpLDAimm, 255, OpSTA, 32, 0, OpLDAimm, 2, OpADC, 32, 0,
              OpLDYabs, 32, 0, OpLDXimm, 1, OpSYS, OpBRK>>]

\* LDX #$03, SYS $0006, BRK, "Hi", 0
PrintString ==
  [name |-> "String print",
   code |-> <<OpLDXimm, 3, OpSYS, 6, 0, OpBRK, 72, 105, 0>>]

\* LDA #$07, TAY, TYA, LDX $0001, INC $0001, BRK
IncAndTransfers ==
  [name |-> "INC and transfers",
   code |-> <<OpLDAimm, 7, OpTAY, OpTYA, OpLDXabs, 1, 0, OpINC, 1, 0, OpBRK>>]

\* LDA #v, STA $0020, LDX #w, CPX $0020, LDA #w, ADC $0020, ADC $0020, BRK
ArithCase(v, w) ==
  [name |-> "Compare and add",
   code |-> <<OpLDAimm, v, OpSTA, 32, 0, OpLDXimm, w, OpCPX, 32, 0,
              OpLDAimm, w, OpADC, 32, 0, OpADC, 32, 0, OpBRK>>]

\* LDX #x, CPX $0020, BNE off, NOP, NOP, BRK: the cell at $0020 holds 0, so
\* the branch is taken unless x is 0
BranchCase(x, off) ==
  [name |-> "Branch case",
   code |-> <<OpLDXimm, x, OpCPX, 32, 0, OpBNE, off, OpNOP, OpNOP, OpBRK>>]

\* LDX #$03, SYS $0006, BRK, then the string 'H', b, 0
PrintText(b) ==
  [name |-> "Text print",
   code |-> <<OpLDXimm, 3, OpSYS, 6, 0, OpBRK, 72, b, 0>>]

\* LDY #$06, LDX #$02, SYS, BRK, "Hi", 0
PrintZeroPage ==
  [name |-> "Zero page print",
   code |-> <<OpLDYimm, 6, OpLDXimm, 2, OpSYS, OpBRK, 72, 105, 0>>]

\* LDY #$2A, LDX #$01, SYS, BRK
PrintInteger ==
  [name |-> "Integer print", code |-> <<OpLDYimm, 42, OpLDXimm, 1, OpSYS, OpBRK>>]

\* LDY #$09, LDX #x, SYS, NOP, BRK
SysCall(x) ==
  [name |-> "System call",
   code |-> <<OpLDYimm, 9, OpLDXimm, x, OpSYS, OpNOP, OpBRK>>]

\* LDY #$09, LDA #v, TAX, TXA, BRK
TransferPair(v) ==
  [name |-> "Transfer pair",
   code |-> <<OpLDYimm, 9, OpLDAimm, v, OpTAX, OpTXA, OpBRK>>]

\* LDX #$03, SYS $0009, INC $0000, BRK, "H", 0
PrintThenInc ==
  [name |-> "Print, then INC",
   code |-> <<OpLDXimm, 3, OpSYS, 9, 0, OpINC, 0, 0, OpBRK, 72, 0>>]

\* LDX #$05, NOP, BRK
LoadAndWait ==
  [name |-> "Load and wait", code |-> <<OpLDXimm, 5, OpNOP, OpBRK>>]

\* CPX $0040 (sets Z and C), LDX #$01, LDY #$02, LDA #b, STA a, LDX a, LDY a,
\* LDA #$07, LDA a, BRK
LoadForms(b, a) ==
  [name |-> "Load forms",
   code |-> <<OpCPX, 64, 0, OpLDXimm, 1, OpLDYimm, 2, OpLDAimm, b,
              OpSTA, a % 256, a \div 256, OpLDXabs, a % 256, a \div 256,
              OpLDYabs, a % 256, a \div 256, OpLDAimm, 7,
              OpLDAabs, a % 256, a \div 256, OpBRK>>]

\* INC $0000, LDX #$03, SYS $0009, BRK, "H", 0
IncThenPrint ==
  [name |-> "INC, then print",
   code |-> <<OpINC, 0, 0, OpLDXimm, 3, OpSYS, 9, 0, OpBRK, 72, 0>>]

\* LDA #'H', STA $FFFF, LDX #$03, SYS $FFFF, BRK: the string fills the last
\* cell of the memory
PrintAtEnd ==
  [name |-> "Print at the end",
   code |-> <<OpLDAimm, 72, OpSTA, 255, 255, OpLDXimm, 3, OpSYS, 255, 255,
              OpBRK>>]

\* MMU.setProgram called with no bytes at all
EmptyProgram == [name |-> "Empty", code |-> <<>>]

Programs ==
  {BasicTransfer, BranchTaken, UnknownOpcode, BranchBack, RunOffEnd,
   AddAndPrint, PrintString, IncAndTransfers}
  \cup {StoreLoad(b, a) : b \in {0, 173}, a \in {0, 6, 16, 65535}}
  \cup {StoreThenLoad(5, 7)}
  \cup {ArithCase(v, w) : v, w \in {0, 1, 128, 255}}

\* The programs run while devices send interrupts.
IrqPrograms == {BasicTransfer, UnknownOpcode, BranchBack}

\* The programs of the INC loop.
IncPrograms == {IncLoop(v, a) : v \in {1, 255}, a \in {0, 32}}

\* The programs of the branch, system call and transfer cases.
CtlPrograms ==
  {BranchCase(x, off) : x \in {0, 5}, off \in {0, 2, 127, 128, 253}}
  \cup {PrintText(b) : b \in {105, 128}}
  \cup {PrintZeroPage, PrintInteger}
  \cup {SysCall(x) : x \in {0, 4, 255}}
  \cup {TransferPair(v) : v \in {0, 1, 127, 128, 255}}

\* The programs of the instruction cycle: every opcode of the table.
InsPrograms ==
  {BasicTransfer, BranchTaken, RunOffEnd, AddAndPrint, PrintString,
   PrintZeroPage, IncAndTransfers, IncThenPrint}
  \cup {LoadForms(b, a) : b \in {0, 129}, a \in {32, 65535}}

\* The programs whose runs are compared with each other.
RerunPrograms == {PrintThenInc, TransferPair(3), SysCall(7)}

\* The interrupts the Keyboard, the one device, sends between two clock pulses.
Interrupts == {KeyInterrupt(k) : k \in {KeyLowerQ, KeyUpperQ, KeyOther}}

\* An interrupt of a device other than the keyboard, as acceptInterrupt
\* takes it: any priority.
DeviceInterrupt(priority) ==
  [irqNumber |-> 2, priority |-> priority, deviceName |-> "Device", data |-> 0]

\* The interrupts of the arbitration runs: priorities -1, 1, 1 and 2.
ArbInterrupts ==
  {DeviceInterrupt(p) : p \in {-1, 1, 2}} \cup {KeyInterrupt(KeyOther)}

\* A device other than the keyboard sending the byte of 'q'.
DeviceQuit == [DeviceInterrupt(1) EXCEPT !.data = KeyLowerQ]

\* The interrupts of the InterruptCheck runs: keys, and another device.
ChkInterrupts ==
  {KeyInterrupt(KeyLowerQ), KeyInterrupt(KeyUpperQ), KeyInterrupt(KeyOther),
   DeviceQuit}

\* ------------------------------------------------------------------- Init
\* The state once System's constructor has run: memory zeroed, the listeners
\* registered, the menu shown, the clock not yet started.
NoInstr == [iRegister |-> "NAN", opcode |-> 0, address |-> 0, aRegister |-> 0]

NoIncs == [a \in {} |-> [orig |-> 0, count |-> 0]]

\* The runs that have ended, by program bytes: the states they ended in.
NoFinals == [code \in {} |-> {}]

\* A run as seen from outside: the program's bytes and, tick after tick, the
\* registers, the memory and the output at the end of the tick.
NoRun == [code |-> <<>>, ticks |-> <<>>]

\* The instruction cycle in progress: the CPU pulses it has taken since its
\* Fetch stage began and the operand bytes loaded in it.
NoCycle == [ticks |-> 0, operands |-> 0]

Init ==
  /\ aRegister = 0 /\ xRegister = 0 /\ yRegister = 0
  /\ zRegister = FALSE /\ cRegister = FALSE /\ pcRegister = 0
  /\ iRegister = "NAN" /\ opcode = 0 /\ operand = [i \in 0..1 |-> 0]
  /\ step = "Fetch" /\ currentCyclePulseCount = 0
  /\ fetchCount = 0 /\ currentFetch = 0
  /\ writeAddress = Null /\ writeValue = Null
  /\ pendingInterrupt = NoInterrupt
  /\ useCarry \in BOOLEAN
  /\ MEMORY = ZeroMemory /\ MAR = 0 /\ MDR = 0
  /\ isReadPending = FALSE /\ isWritePending = FALSE
  /\ _PROGRAM = <<>> /\ _LOAD_ADDRESS = 0 /\ _isLoading = FALSE
  /\ waitingInterrupts = <<>>
  /\ running = TRUE /\ currentProgram = NoProgram
  /\ programOutput = <<>> /\ consoleOutput = <<>>
  /\ isRunning = FALSE /\ silentMode = TRUE /\ crashed = FALSE
  /\ phase = "CPU"
  /\ runs = 0 /\ loadedCode = <<>> /\ loadTicks = 0 /\ loadSeenFalse = FALSE
  /\ committed = 0 /\ commitNow = FALSE /\ cpuError = ""
  /\ lastTrigger = Null /\ mdrUse = NoUse /\ qChecks = Null
  /\ incs = NoIncs /\ prevInstr = NoInstr /\ cycle = NoCycle
  /\ finals = NoFinals
  /\ opcodeAddress = 0 /\ thisRun = NoRun /\ freshRun = NoRun

\* ---------------------------------------------------------------- actions
\* The menu's key handler for a program selection (System.runProgramMenu):
\* Cpu.reset, MMU.reset, Memory.reset, then ProgramMenu.loadProgram, which
\* calls MMU.setProgram, then the clock is started.  Cpu.reset leaves
\* writeValue and useCarry as they are.
RunProgram(program) ==
  /\ phase = "CPU" /\ ~crashed /\ ~isRunning
  /\ runs < MaxRuns
  /\ aRegister' = 0 /\ xRegister' = 0 /\ yRegister' = 0
  /\ zRegister' = FALSE /\ cRegister' = FALSE /\ pcRegister' = 0
  /\ iRegister' = "NAN" /\ opcode' = 0 /\ operand' = [i \in 0..1 |-> 0]
  /\ step' = "Fetch" /\ currentCyclePulseCount' = 0
  /\ fetchCount' = 0 /\ currentFetch' = 0
  /\ writeAddress' = Null
  /\ pendingInterrupt' = NoInterrupt
  /\ UNCHANGED <<writeValue, useCarry>>
  /\ LET b == setProgram(MemoryReset(MMUReset(Bus)), program.code)
     IN /\ MEMORY' = b.MEMORY /\ MAR' = b.MAR /\ MDR' = b.MDR
        /\ isReadPending' = b.isReadPending
        /\ isWritePending' = b.isWritePending
        /\ _PROGRAM' = b.PROGRAM /\ _LOAD_ADDRESS' = b.LOAD_ADDRESS
        /\ _isLoading' = b.isLoading
  /\ currentProgram' = program
  /\ waitingInterrupts' = <<>>
  /\ running' = TRUE /\ isRunning' = TRUE /\ silentMode' = FALSE
  /\ UNCHANGED <<programOutput, consoleOutput, crashed, phase>>
  /\ runs' = runs + 1 /\ loadedCode' = program.code
  /\ loadTicks' = 0 /\ loadSeenFalse' = FALSE
  /\ committed' = 0 /\ commitNow' = FALSE /\ cpuError' = ""
  /\ lastTrigger' = Null /\ mdrUse' = NoUse /\ qChecks' = Null
  /\ incs' = NoIncs /\ prevInstr' = NoInstr /\ cycle' = NoCycle
  /\ UNCHANGED finals
  /\ opcodeAddress' = 0
  /\ freshRun' = IF runs = 1 THEN thisRun ELSE freshRun
  /\ thisRun' = IF program \in RerunPrograms
                THEN [code |-> program.code, ticks |-> <<>>] ELSE NoRun

\* Keyboard's stdin handler (or another device) calling
\* InterruptController.acceptInterrupt between two clock pulses.
AcceptInterrupt(interrupt) ==
  /\ phase = "CPU" /\ ~crashed /\ isRunning
  /\ ~silentMode
  /\ Len(waitingInterrupts) < MaxWaiting
  /\ waitingInterrupts' = Append(waitingInterrupts, interrupt)
  /\ qChecks' = IF IsQuitKey(interrupt) /\ qChecks = Null THEN 0 ELSE qChecks
  /\ UNCHANGED <<cpuVars, memVars, mmuVars, sysVars, phase, runs, loadedCode,
                 loadTicks, loadSeenFalse, committed, commitNow, cpuError,
                 lastTrigger, mdrUse, incs, prevInstr, cycle, finals,
                 opcodeAddress, thisRun, freshRun>>

\* Which part of Cpu.pulse the next pulse runs.
PulseDoes ==
  IF ~running THEN "Stopped"
  ELSE IF _isLoading THEN "Loading"
  ELSE IF fetchCount > 0 THEN "OperandFetch"
  ELSE step

\* The INC instructions completed so far, by address: the value the first of
\* them read and how many have gone through their instruction cycle.
IncRead(log, a, value) ==
  IF a \in DOMAIN log THEN log
  ELSE [x \in DOMAIN log \cup {a} |->
          IF x = a THEN [orig |-> value, count |-> 0] ELSE log[x]]

IncDone(log, a) ==
  IF a \in DOMAIN log THEN [log EXCEPT ![a].count = log[a].count + 1] ELSE log

\* What a tick leaves to be seen: registers, flags, PC, memory, output.
Seen ==
  [aRegister |-> aRegister, xRegister |-> xRegister, yRegister |-> yRegister,
   zRegister |-> zRegister, cRegister |-> cRegister, pcRegister |-> pcRegister,
   MEMORY |-> MEMORY,
   output |-> IF running THEN programOutput ELSE consoleOutput]

RunEnded(log, code, final) ==
  [c \in DOMAIN log \cup {code} |->
     (IF c \in DOMAIN log THEN log[c] ELSE {})
       \cup (IF c = code THEN {final} ELSE {})]

\* Clock.pulse, first listener: Cpu.pulse.
CpuPulse ==
  /\ phase = "CPU" /\ ~crashed /\ isRunning
  /\ currentCyclePulseCount < MaxPulseCount
  /\ \A a \in DOMAIN incs : incs[a].count < MaxIncs
  /\ phase' = "MEM"
  /\ LET n == pulse(Machine)
     IN /\ aRegister' = n.aRegister /\ xRegister' = n.xRegister
        /\ yRegister' = n.yRegister /\ zRegister' = n.zRegister
        /\ cRegister' = n.cRegister /\ pcRegister' = n.pcRegister
        /\ iRegister' = n.iRegister /\ opcode' = n.opcode
        /\ operand' = n.operand /\ step' = n.step
        /\ currentCyclePulseCount' = n.currentCyclePulseCount
        /\ fetchCount' = n.fetchCount /\ currentFetch' = n.currentFetch
        /\ writeAddress' = n.writeAddress /\ writeValue' = n.writeValue
        /\ pendingInterrupt' = n.pendingInterrupt
        /\ MAR' = n.MAR /\ MDR' = n.MDR
        /\ isReadPending' = n.isReadPending
        /\ isWritePending' = n.isWritePending
        /\ waitingInterrupts' = n.waitingInterrupts
        /\ running' = n.running /\ currentProgram' = n.currentProgram
        /\ programOutput' = n.programOutput
        /\ consoleOutput' = n.consoleOutput
        /\ isRunning' = n.isRunning /\ silentMode' = n.silentMode
        /\ cpuError' = n.cpuError
        /\ lastTrigger' = n.lastTrigger /\ mdrUse' = n.mdrUse
  /\ UNCHANGED <<useCarry, MEMORY, mmuVars, crashed, runs, loadedCode,
                 committed, commitNow>>
  /\ loadTicks' = IF PulseDoes = "Loading" THEN loadTicks + 1 ELSE loadTicks
  /\ loadSeenFalse' = (loadSeenFalse \/ PulseDoes \notin {"Stopped", "Loading"})
  /\ qChecks' = IF PulseDoes = "InterruptCheck" /\ qChecks \in {0, 1}
                THEN qChecks + 1 ELSE qChecks
  /\ incs' = IF iRegister = "INC" /\ PulseDoes = "InterruptCheck"
             THEN IncDone(incs, operand[1] * 256 + operand[0])
             ELSE IF iRegister = "INC" /\ PulseDoes = "Execute"
                     /\ currentCyclePulseCount = 1
                  THEN IncRead(incs, operand[1] * 256 + operand[0], MDR)
                  ELSE incs
  /\ prevInstr' = IF PulseDoes = "InterruptCheck"
                  THEN [iRegister |-> iRegister, opcode |-> opcode,
                        address |-> operand[1] * 256 + operand[0],
                        aRegister |-> aRegister]
                  ELSE prevInstr
  /\ cycle' = IF PulseDoes \in {"Stopped", "Loading"} THEN cycle
              ELSE IF PulseDoes = "InterruptCheck" /\ step' = "Fetch"
                   THEN NoCycle
                   ELSE [ticks |-> cycle.ticks + 1,
                         operands |->
                           IF PulseDoes = "OperandFetch"
                              /\ currentCyclePulseCount = 1
                           THEN cycle.operands + 1 ELSE cycle.operands]
  /\ finals' = IF running /\ ~running' /\ currentProgram \in RerunPrograms
               THEN RunEnded(finals, loadedCode,
                             [aRegister |-> aRegister', xRegister |-> xRegister',
                              yRegister |-> yRegister', zRegister |-> zRegister',
                              cRegister |-> cRegister', pcRegister |-> pcRegister',
                              MEMORY |-> MEMORY, output |-> consoleOutput'])
               ELSE finals
  /\ opcodeAddress' = IF PulseDoes = "Fetch" /\ currentCyclePulseCount = 0
                      THEN pcRegister ELSE opcodeAddress
  /\ UNCHANGED <<thisRun, freshRun>>

\* Clock.pulse, second listener: Memory.pulse.  An exception of Memory.pulse
\* leaves Clock.pulse: the InterruptController is not pulsed and the process
\* ends.
MemoryPulse ==
  /\ phase = "MEM" /\ ~crashed
  /\ LET b == MemoryPulseResult(Bus)
     IN /\ MEMORY' = b.MEMORY /\ MAR' = b.MAR /\ MDR' = b.MDR
        /\ isReadPending' = b.isReadPending
        /\ isWritePending' = b.isWritePending
        /\ _PROGRAM' = b.PROGRAM /\ _LOAD_ADDRESS' = b.LOAD_ADDRESS
        /\ _isLoading' = b.isLoading
        /\ crashed' = b.crashed
        /\ phase' = IF b.crashed THEN "MEM" ELSE "INT"
        /\ commitNow' = (b.wrote /\ _isLoading)
        /\ committed' = IF b.wrote /\ _isLoading THEN committed + 1 ELSE committed
  /\ UNCHANGED <<cpuVars, waitingInterrupts, running, currentProgram,
                 programOutput, consoleOutput, isRunning, silentMode, runs,
                 loadedCode, loadTicks, loadSeenFalse, cpuError, lastTrigger,
                 mdrUse, qChecks, incs, prevInstr, cycle, finals,
                 opcodeAddress, thisRun, freshRun>>

\* Clock.pulse, third listener: InterruptController.pulse.
InterruptControllerPulse ==
  /\ phase = "INT" /\ ~crashed
  /\ phase' = "CPU"
  /\ pendingInterrupt' =
       setInterrupt(pendingInterrupt, Arbitrate(waitingInterrupts, -1, NoInterrupt))
  /\ waitingInterrupts' = <<>>
  /\ UNCHANGED <<aRegister, xRegister, yRegister, zRegister, cRegister,
                 pcRegister, iRegister, opcode, operand, step,
                 currentCyclePulseCount, fetchCount, currentFetch,
                 writeAddress, writeValue, useCarry, memVars, mmuVars,
                 sysVars, runs, loadedCode, loadTicks, loadSeenFalse,
                 committed, commitNow, cpuError, lastTrigger, mdrUse, qChecks,
                 incs, prevInstr, cycle, finals, opcodeAddress, freshRun>>
  /\ thisRun' = IF thisRun.code = <<>> THEN thisRun
                ELSE [thisRun EXCEPT !.ticks = Append(@, Seen)]

Next ==
  \/ \E program \in Programs : RunProgram(program)
  \/ CpuPulse
  \/ MemoryPulse
  \/ InterruptControllerPulse

\* Program runs from the menu, no device sending interrupts.
Spec == Init /\ [][Next]_vars

\* The user has answered "no" to the carry question at start-up.
InitNoCarry == Init /\ ~useCarry

\* Short programs with the keyboard sending interrupts.
NextIrq ==
  \/ \E program \in IrqPrograms : RunProgram(program)
  \/ \E interrupt \in Interrupts : AcceptInterrupt(interrupt)
  \/ CpuPulse
  \/ MemoryPulse
  \/ InterruptControllerPulse

SpecIrq == InitNoCarry /\ [][NextIrq]_vars

\* One short program with devices of several priorities sending interrupts.
NextArb ==
  \/ RunProgram(BasicTransfer)
  \/ \E interrupt \in ArbInterrupts : AcceptInterrupt(interrupt)
  \/ CpuPulse
  \/ MemoryPulse
  \/ InterruptControllerPulse

SpecArb == InitNoCarry /\ [][NextArb]_vars

\* The INC loop alone, no device sending interrupts.
NextInc ==
  \/ \E program \in IncPrograms : RunProgram(program)
  \/ CpuPulse
  \/ MemoryPulse
  \/ InterruptControllerPulse

SpecInc == InitNoCarry /\ [][NextInc]_vars

\* Branches, system calls and register transfers, no device sending interrupts.
NextCtl ==
  \/ \E program \in CtlPrograms : RunProgram(program)
  \/ CpuPulse
  \/ MemoryPulse
  \/ InterruptControllerPulse

SpecCtl == Init /\ [][NextCtl]_vars

\* A load of no bytes, beside a program of the menu.
NextEmpty ==
  \/ \E program \in {EmptyProgram, BasicTransfer} : RunProgram(program)
  \/ CpuPulse
  \/ MemoryPulse
  \/ InterruptControllerPulse

SpecEmpty == Init /\ [][NextEmpty]_vars

\* Programs run one after the other, the same one twice included.
NextRerun ==
  \/ \E program \in RerunPrograms : RunProgram(program)
  \/ CpuPulse
  \/ MemoryPulse
  \/ InterruptControllerPulse

SpecRerun == Init /\ [][NextRerun]_vars

\* The "Branch taken" program alone; the clock's timer keeps pulsing its
\* listeners while it runs.
NextBranch ==
  \/ RunProgram(BranchTaken)
  \/ CpuPulse
  \/ MemoryPulse
  \/ InterruptControllerPulse

SpecBranch ==
  /\ Init /\ [][NextBranch]_vars
  /\ WF_vars(CpuPulse) /\ WF_vars(MemoryPulse) /\ WF_vars(InterruptControllerPulse)

\* One short program with the keyboard and another device sending interrupts.
NextChk ==
  \/ RunProgram(LoadAndWait)
  \/ \E interrupt \in ChkInterrupts : AcceptInterrupt(interrupt)
  \/ CpuPulse
  \/ MemoryPulse
  \/ InterruptControllerPulse

SpecChk == InitNoCarry /\ [][NextChk]_vars

\* Programs that go through every instruction, no device sending interrupts.
NextIns ==
  \/ \E program \in InsPrograms : RunProgram(program)
  \/ CpuPulse
  \/ MemoryPulse
  \/ InterruptControllerPulse

SpecIns == Init /\ [][NextIns]_vars

\* String prints; the clock's timer keeps pulsing its listeners while a
\* program runs.
NextPrint ==
  \/ \E program \in {PrintString, PrintZeroPage, PrintAtEnd} : RunProgram(program)
  \/ CpuPulse
  \/ MemoryPulse
  \/ InterruptControllerPulse

SpecPrint ==
  /\ Init /\ [][NextPrint]_vars
  /\ WF_vars(CpuPulse) /\ WF_vars(MemoryPulse) /\ WF_vars(InterruptControllerPulse)

\* ================================================================ properties

\* C1: a fault of Decode (an opcode that is not in the table) is confined to
\* the tick: when the CPU's pulse that raised "Unknown Opcode" is over, the
\* pipeline is back at Fetch.
C1_DecodeFaultResetsToFetch ==
  (phase = "MEM" /\ cpuError = "Unknown Opcode") => step = "Fetch"

\* C2: the program counter is an address of the memory, 0..65535, after
\* every tick.
C2_PcInRange == pcRegister \in 0..65535

\* C3: 256 INC instructions on one address bring the cell back to the value
\* the first of them read (the wrap from 0xFF to 0x00 and the address 0x0000
\* included).
C3_IncRoundTrip ==
  \A a \in DOMAIN incs :
    (incs[a].count = 256 /\ ~isWritePending) => Cell(MEMORY, a) = incs[a].orig

\* C4: once the keyboard has sent 'q' or 'Q', the run is halted at the latest
\* by the second InterruptCheck pulse that follows, whatever other keys were
\* sent.
C4_QuitHaltsWithinOneCycle == qChecks = 2 => ~running

\* C5: a value the CPU takes from MDR answers the read it triggered on its
\* previous pulse: it is the cell at that address, and no read is pending
\* when it is taken.
C5_TwoPhaseRead ==
  (phase = "MEM" /\ mdrUse.used) =>
    /\ mdrUse.addr # Null
    /\ ~mdrUse.pending
    /\ mdrUse.value = Cell(MEMORY, mdrUse.addr)

\* The CPU has just taken a character of the string that SYS prints.
C5_Witness ==
  /\ phase = "MEM" /\ mdrUse.used /\ iRegister = "SYS" /\ step = "Execute"
  /\ mdrUse.value = 105

\* C6: STA a followed by LDA a leaves in A the byte that A held at the STA,
\* and the cell a holds it too.
C6_StoreLoadRoundTrip ==
  (/\ step = "InterruptCheck" /\ iRegister = "LDA" /\ opcode = OpLDAabs
   /\ prevInstr.iRegister = "STA"
   /\ prevInstr.address = operand[1] * 256 + operand[0]) =>
    /\ aRegister = prevInstr.aRegister
    /\ Cell(MEMORY, prevInstr.address) = prevInstr.aRegister

\* LDA $0010 has completed right after STA $0010 stored 0xAD.
C6_Witness ==
  /\ step = "InterruptCheck" /\ iRegister = "LDA" /\ opcode = OpLDAabs
  /\ prevInstr.iRegister = "STA" /\ prevInstr.address = 16
  /\ operand[1] * 256 + operand[0] = 16
  /\ prevInstr.aRegister = 173

\* C7: the CPU finds the program loading on its first len(P) pulses after
\* setProgram(P), len(P) >= 1, and on none after them.
C7_LoadingForLenTicks ==
  Len(loadedCode) >= 1 =>
    /\ loadTicks <= Len(loadedCode)
    /\ loadSeenFalse => (loadTicks = Len(loadedCode) /\ ~_isLoading)
    /\ (~loadSeenFalse /\ phase = "CPU" /\ loadTicks < Len(loadedCode))
         => _isLoading

\* The CPU has run after a load of ten bytes.
C7_Witness ==
  loadSeenFalse /\ Len(loadedCode) = 10 /\ loadTicks = 10 /\ step = "Execute"

\* C8 as stated: after the Memory pulse that commits the last byte of the
\* program, the MMU still reports the load in progress; it ends on the
\* following tick.
C8_LoadingEndsOnTickAfter ==
  (commitNow /\ committed = Len(loadedCode) /\ phase = "INT") => _isLoading

\* C8, amended: isProgramLoading is false as soon as the Memory pulse that
\* commits the last byte of the program is over, and true after the commit
\* of any earlier byte; the CPU's next pulse is the first to find it false.
C8_LoadingEndsOnFinalCommit ==
  /\ (commitNow /\ committed = Len(loadedCode)) => ~_isLoading
  /\ (commitNow /\ committed < Len(loadedCode)) => _isLoading
  /\ (commitNow /\ committed = Len(loadedCode) /\ phase \in {"INT", "CPU"})
       => ~loadSeenFalse

\* The Memory pulse that committed the last of seven bytes is just over.
C8_Witness ==
  commitNow /\ committed = Len(loadedCode) /\ Len(loadedCode) = 7
  /\ phase = "INT"

\* C9: the load commits one byte per tick, in index order from address 0;
\* when it finishes, cell i holds P[i] for each index of P and every other
\* cell holds 0.
C9_LoadedImage ==
  /\ (runs > 0 /\ ~loadSeenFalse) =>
       /\ MEMORY = Image(loadedCode, committed)
       /\ committed = (IF phase = "MEM" THEN loadTicks - 1 ELSE loadTicks)
  /\ (commitNow /\ committed = Len(loadedCode)) =>
       MEMORY = Image(loadedCode, Len(loadedCode))

\* The load of a second program has finished; the first one, which printed
\* "255", had stored a byte at 0x0020, beyond the second program's bytes.
C9_Witness ==
  /\ runs = 2 /\ commitNow /\ committed = Len(loadedCode)
  /\ loadedCode = BasicTransfer.code /\ consoleOutput = <<50, 53, 53>>

\* C10: while the program is loading, a pulse of the CPU changes none of its
\* registers or pipeline fields and issues no memory operation.
C10_CpuIdleWhileLoading ==
  [][(phase = "CPU" /\ phase' = "MEM" /\ _isLoading) =>
       UNCHANGED <<aRegister, xRegister, yRegister, zRegister, cRegister,
                   pcRegister, iRegister, opcode, operand, step,
                   currentCyclePulseCount, fetchCount, currentFetch,
                   writeAddress, writeValue, MAR, MDR, isReadPending,
                   isWritePending>>]_vars

\* The CPU has been pulsed three times during a load.
C10_Witness == phase = "MEM" /\ _isLoading /\ loadTicks = 3

\* C11: once stopSystem has run (BRK, or a keyboard q at InterruptCheck),
\* running is false, a pulse of the CPU is a no-op, and A, X, Y, Z, C, PC,
\* step and the memory cells keep their values until the next reset, the
\* Memory and InterruptController pulses of the stopping tick included.
C11_StoppedIsFrozen ==
  /\ []((runs > 0 /\ currentProgram = NoProgram) => (~running /\ ~isRunning))
  /\ [](~running => pulse(Machine) = Machine)
  /\ [][(~running /\ runs' = runs) =>
          UNCHANGED <<aRegister, xRegister, yRegister, zRegister, cRegister,
                      pcRegister, step, MEMORY>>]_vars

\* A keyboard q has stopped the run at the InterruptCheck of TAX, and the
\* stopping tick has completed its Memory and InterruptController pulses.
C11_Witness ==
  /\ ~running /\ phase = "CPU" /\ runs = 1 /\ currentProgram = NoProgram
  /\ step = "InterruptCheck" /\ iRegister = "TAX" /\ aRegister = 5

\* The waiting interrupt of the greatest priority, the earliest accepted
\* among those of that priority.
GreatestPriority(waiting) ==
  LET top == CHOOSE i \in 1..Len(waiting) :
               /\ \A j \in 1..Len(waiting) :
                    waiting[j].priority <= waiting[i].priority
               /\ \A j \in 1..(i - 1) :
                    waiting[j].priority < waiting[i].priority
  IN waiting[top]

\* C12: a pulse of the InterruptController with a non-empty waiting list
\* passes to the CPU the waiting interrupt of the greatest priority, the
\* earliest accepted among equals, whatever integers the priorities are, and
\* leaves the waiting list empty.
C12_GreatestPriorityPassed ==
  [][(phase = "INT" /\ phase' = "CPU" /\ waitingInterrupts # <<>>) =>
       /\ pendingInterrupt' = GreatestPriority(waitingInterrupts)
       /\ waitingInterrupts' = <<>>]_vars

\* C13: an interrupt accepted since the InterruptController's last pulse is
\* not visible to the CPU's pulse of the tick (the pulse does what it would
\* do with an empty waiting list, and accepting leaves pendingInterrupt as it
\* is); the InterruptController's pulse, the last of the tick, makes the
\* winner of the arbitration the pendingInterrupt that the CPU's pulse of
\* the next tick finds.
C13_AcceptedVisibleNextTick ==
  [][/\ (phase = "CPU" /\ phase' = "MEM") =>
          LET n == pulse([Machine EXCEPT !.waitingInterrupts = <<>>])
          IN <<step', running', isRunning', pendingInterrupt',
               currentCyclePulseCount', pcRegister'>>
             = <<n.step, n.running, n.isRunning, n.pendingInterrupt,
                 n.currentCyclePulseCount, n.pcRegister>>
     /\ (phase' = phase /\ runs' = runs) => pendingInterrupt' = pendingInterrupt
     /\ (phase = "MEM" /\ phase' = "INT") =>
          (pendingInterrupt' = pendingInterrupt
           /\ waitingInterrupts' = waitingInterrupts)
     /\ (phase = "INT" /\ phase' = "CPU" /\ waitingInterrupts # <<>>) =>
          pendingInterrupt' = GreatestPriority(waitingInterrupts)]_vars

\* The key 'x' of an earlier tick is latched while a 'q' accepted since then
\* is still waiting.
C13_Witness ==
  /\ phase = "MEM" /\ pendingInterrupt = KeyInterrupt(KeyOther)
  /\ waitingInterrupts = <<KeyInterrupt(KeyLowerQ)>> /\ running

\* C14 as stated: at the end of a Memory pulse that completed a read
\* MDR = MEMORY[MAR], and at the end of one that completed a write
\* MEMORY[MAR] = MDR, the pulses of a program load included.
C14_MemoryPulseAsStated ==
  [][(phase = "MEM" /\ phase' = "INT") =>
       /\ isReadPending => MDR' = Cell(MEMORY', MAR')
       /\ isWritePending => Cell(MEMORY', MAR') = MDR']_vars

\* C14, amended: a Memory pulse completes at most one write and at most one
\* read, the write first.  A completed write leaves the cell at its address
\* equal to the MDR it was issued with; a completed read leaves
\* MDR = MEMORY[MAR]; MEMORY[MAR] = MDR holds at the end of a pulse that
\* completed a write unless the pulse primed the next byte of a program
\* load, in which case MAR and MDR are those of that next byte.
C14_MemoryPulse ==
  [][(phase = "MEM" /\ phase' = "INT") =>
       /\ \A a \in (DOMAIN MEMORY \cup DOMAIN MEMORY') \ {MAR} :
            Cell(MEMORY', a) = Cell(MEMORY, a)
       /\ ~isWritePending => MEMORY' = MEMORY
       /\ isWritePending => Cell(MEMORY', MAR) = MDR
       /\ (isWritePending /\ ~isWritePending') => Cell(MEMORY', MAR') = MDR'
       /\ isWritePending' =>
            /\ isWritePending /\ _isLoading
            /\ MAR' = MAR + 1 /\ MDR' = loadedCode[MAR' + 1]
       /\ isReadPending => MDR' = Cell(MEMORY', MAR')
       /\ ~isReadPending']_vars

\* A Memory pulse of a program load is just over: it has committed a byte
\* and primed the next one, which the cell at MAR does not hold yet.
C14_Witness ==
  /\ phase = "INT" /\ commitNow /\ _isLoading /\ isWritePending
  /\ committed = 2 /\ Cell(MEMORY, MAR) # MDR

\* C15: the CPU's step is always one of Fetch, Decode, Execute, Writeback,
\* InterruptCheck, and between two resets it changes only along the edges
\* Fetch->Decode, Decode->Execute, Execute->Writeback,
\* Execute->InterruptCheck, Writeback->InterruptCheck, InterruptCheck->Fetch.
C15_StepEdges ==
  /\ [](step \in {"Fetch", "Decode", "Execute", "Writeback", "InterruptCheck"})
  /\ [][(step' # step /\ runs' = runs) =>
          <<step, step'>> \in
            {<<"Fetch", "Decode">>, <<"Decode", "Execute">>,
             <<"Execute", "Writeback">>, <<"Execute", "InterruptCheck">>,
             <<"Writeback", "InterruptCheck">>,
             <<"InterruptCheck", "Fetch">>}]_vars

\* INC has gone from Execute to Writeback.
C15_Witness ==
  phase = "MEM" /\ step = "Writeback" /\ iRegister = "INC" /\ writeValue = 8

\* C16: fetchCount >= currentFetch >= 0 always; the pulse that loads an
\* operand byte other than the last one counts it, and the pulse that loads
\* the last one leaves both counters 0.
C16_FetchCounters ==
  /\ [](fetchCount >= currentFetch /\ currentFetch >= 0)
  /\ [][(/\ phase = "CPU" /\ phase' = "MEM" /\ PulseDoes = "OperandFetch"
          /\ currentCyclePulseCount = 1) =>
          IF currentFetch + 1 = fetchCount
          THEN fetchCount' = 0 /\ currentFetch' = 0
          ELSE fetchCount' = fetchCount /\ currentFetch' = currentFetch + 1]_vars

\* The last of the two operand bytes of LDA $FFFF has just been loaded.
C16_Witness ==
  /\ phase = "MEM" /\ step = "Execute" /\ opcode = OpLDAabs
  /\ operand = [i \in 0..1 |-> 255] /\ currentCyclePulseCount = 0
  /\ fetchCount = 0 /\ currentFetch = 0 /\ mdrUse.used

\* C17: A, X, Y, the opcode and the two operand bytes are integers of
\* 0..255 after every tick.
C17_RegistersAreBytes ==
  /\ aRegister \in Byte /\ xRegister \in Byte /\ yRegister \in Byte
  /\ opcode \in Byte /\ operand[0] \in Byte /\ operand[1] \in Byte

\* ADC has added 0xFF to 0x02: the sum 0x101 was cut to 0x01.
C17_Witness ==
  /\ step = "InterruptCheck" /\ iRegister = "ADC" /\ aRegister = 1
  /\ cRegister /\ mdrUse.value = 255

\* C18: the opcode of an instruction is fetched by the CPU's second pulse of
\* its cycle at the earliest, and when the micro-op of an instruction with
\* N operand bytes is about to be invoked for the first time the cycle has
\* taken at least 2(N+1) pulses.
C18_FetchTakesTwoTicksPerByte ==
  /\ (step # "Fetch" /\ runs > 0) => cycle.ticks >= 2
  /\ (step = "Execute" /\ fetchCount = 0 /\ currentCyclePulseCount = 0) =>
       cycle.ticks >= 2 * (cycle.operands + 1)
  /\ (step = "Execute" /\ opcode \in {OpLDAabs, OpSTA, OpADC, OpINC, OpCPX}
      /\ fetchCount = 0) => cycle.operands = 2
  /\ (step = "Execute" /\ opcode \in {OpLDAimm, OpLDXimm, OpLDYimm, OpBNE}
      /\ fetchCount = 0) => cycle.operands = 1

\* STA with its two operand bytes is about to be executed, seven pulses
\* after its Fetch began.
C18_Witness ==
  /\ phase = "CPU" /\ step = "Execute" /\ iRegister = "STA"
  /\ fetchCount = 0 /\ currentCyclePulseCount = 0
  /\ cycle = [ticks |-> 7, operands |-> 2]

\* C19: the second pulse of ADC sets C to (sum > 0xFF) and A to sum mod 256,
\* where sum = A + MEMORY[operand] + (C if useCarry is on, else 0); ADC
\* leaves Z, X, Y and the memory as they are.
C19_AdcSum ==
  [][/\ (phase = "CPU" /\ phase' = "MEM" /\ PulseDoes = "Execute"
          /\ iRegister = "ADC") =>
          /\ UNCHANGED <<zRegister, xRegister, yRegister>>
          /\ ~isWritePending'
          /\ IF currentCyclePulseCount = 1
             THEN LET sum == aRegister
                             + Cell(MEMORY, operand[1] * 256 + operand[0])
                             + (IF useCarry /\ cRegister THEN 1 ELSE 0)
                  IN cRegister' = (sum > 255) /\ aRegister' = sum % 256
             ELSE UNCHANGED <<aRegister, cRegister>>
     /\ (phase = "MEM" /\ iRegister = "ADC" /\ step # "Fetch") =>
          MEMORY' = MEMORY]_vars

\* With the carry in use, ADC has added 0xFF, 0xFF and the carry that CPX
\* had set: A = 0xFF, C set, Z still set.
C19_Witness ==
  /\ step = "InterruptCheck" /\ iRegister = "ADC" /\ useCarry
  /\ aRegister = 255 /\ mdrUse.value = 255 /\ cRegister /\ zRegister
  /\ pcRegister = 15

\* C20: the second pulse of CPX sets Z to (X = MEMORY[operand]) and C to
\* (X >= MEMORY[operand]); CPX leaves A, X, Y and the memory as they are.
C20_CpxFlags ==
  [][/\ (phase = "CPU" /\ phase' = "MEM" /\ PulseDoes = "Execute"
          /\ iRegister = "CPX") =>
          /\ UNCHANGED <<aRegister, xRegister, yRegister>>
          /\ ~isWritePending'
          /\ IF currentCyclePulseCount = 1
             THEN LET value == Cell(MEMORY, operand[1] * 256 + operand[0])
                  IN /\ zRegister' = (xRegister = value)
                     /\ cRegister' = (xRegister >= value)
             ELSE UNCHANGED <<zRegister, cRegister>>
     /\ (phase = "MEM" /\ iRegister = "CPX" /\ step # "Fetch") =>
          MEMORY' = MEMORY]_vars

\* CPX has compared X = 0x01 with the cell's 0x80: Z and C are clear.
C20_Witness ==
  /\ step = "InterruptCheck" /\ iRegister = "CPX" /\ xRegister = 1
  /\ mdrUse.value = 128 /\ ~zRegister /\ ~cRegister

\* C21: the pulse that executes BNE leaves in PC, when Z is clear, the PC
\* that followed the operand fetch plus operand[0] read as a signed byte
\* (-128..127), modulo 65536, and leaves PC as it is when Z is set; it
\* changes none of A, X, Y, Z, C.
C21_BneBranch ==
  [][(phase = "CPU" /\ phase' = "MEM" /\ PulseDoes = "Execute"
       /\ iRegister = "BNE") =>
       /\ pcRegister' =
            IF zRegister THEN pcRegister
            ELSE (pcRegister + (IF operand[0] >= 128 THEN operand[0] - 256
                                ELSE operand[0])) % 65536
       /\ UNCHANGED <<aRegister, xRegister, yRegister, zRegister, cRegister>>
     ]_vars

\* BNE with the operand 0x80 has been taken from PC = 7: 7 - 128 wraps to
\* 0xFF87.
C21_Witness ==
  /\ step = "InterruptCheck" /\ iRegister = "BNE" /\ ~zRegister
  /\ operand[0] = 128 /\ pcRegister = 65415 /\ xRegister = 5

\* C22: between two resets Z changes only on a pulse that executes CPX, and
\* C only on a pulse that executes ADC or CPX: the pulses of every other
\* instruction, of the fetch, decode, writeback and interrupt check stages,
\* of the Memory and of the InterruptController leave both as they are.
C22_FlagsFrame ==
  [][/\ (phase = "CPU" /\ phase' = "MEM") =>
          /\ zRegister' # zRegister =>
               (PulseDoes = "Execute" /\ iRegister = "CPX")
          /\ cRegister' # cRegister =>
               (PulseDoes = "Execute" /\ iRegister \in {"ADC", "CPX"})
     /\ phase # "CPU" => UNCHANGED <<zRegister, cRegister>>]_vars

\* LDA has loaded 0 into A after CPX had set Z and C: Z and C are still set.
C22_Witness ==
  /\ step = "InterruptCheck" /\ iRegister = "LDA" /\ aRegister = 0
  /\ zRegister /\ cRegister /\ xRegister = 0 /\ pcRegister = 12

\* C23: SYS with X = 2 or 3 reads the string from its start address (Y in
\* the zero page for X = 2, the 16-bit operand for X = 3), one byte per
\* pulse in address order, appends each byte before the first 0x00 to the
\* program output as it is, and is done on the pulse that finds the 0x00;
\* SYS has taken two operand bytes with X = 3 and none with X = 1 or 2.
C23_SysStringPrint ==
  [][(phase = "CPU" /\ phase' = "MEM" /\ PulseDoes = "Execute"
       /\ iRegister = "SYS" /\ xRegister \in {1, 2, 3}) =>
       /\ cycle.operands = (IF xRegister = 3 THEN 2 ELSE 0)
       /\ xRegister \in {2, 3} =>
            IF currentCyclePulseCount = 0
            THEN /\ programOutput' = programOutput
                 /\ step' = "Execute" /\ isReadPending'
                 /\ MAR' = (IF xRegister = 2 THEN yRegister
                            ELSE operand[1] * 256 + operand[0])
            ELSE /\ MDR = Cell(MEMORY, MAR)
                 /\ IF MDR # 0
                    THEN /\ programOutput' = Append(programOutput, MDR)
                         /\ step' = "Execute" /\ isReadPending'
                         /\ MAR' = MAR + 1
                    ELSE /\ programOutput' = programOutput
                         /\ step' # "Execute"]_vars

\* C24: SYS with X outside {1, 2, 3} has taken no operand byte; the pulse
\* that executes it appends nothing to the output, changes no register, no
\* flag and not PC, issues no memory operation and moves the pipeline to
\* InterruptCheck; the memory stays as it is, and the InterruptCheck pulse
\* that follows moves the pipeline to Fetch.
C24_InvalidSyscall ==
  [][/\ (phase = "CPU" /\ phase' = "MEM" /\ PulseDoes = "Execute"
          /\ iRegister = "SYS" /\ xRegister \notin {1, 2, 3}) =>
          /\ cycle.operands = 0
          /\ UNCHANGED <<aRegister, xRegister, yRegister, zRegister, cRegister,
                         pcRegister, programOutput, consoleOutput, running,
                         MAR, MDR, isReadPending, isWritePending>>
          /\ ~isReadPending /\ ~isWritePending
          /\ step' = "InterruptCheck"
     /\ (phase = "CPU" /\ phase' = "MEM" /\ PulseDoes = "InterruptCheck"
          /\ iRegister = "SYS" /\ xRegister \notin {1, 2, 3}) =>
          (step' = "Fetch" /\ running')
     /\ (phase = "MEM" /\ iRegister = "SYS" /\ xRegister \notin {1, 2, 3}
          /\ step # "Fetch") => MEMORY' = MEMORY]_vars

\* The NOP that follows SYS with X = 4 has been executed; nothing was
\* printed.
C24_Witness ==
  /\ step = "InterruptCheck" /\ iRegister = "NOP" /\ xRegister = 4
  /\ prevInstr.iRegister = "SYS" /\ pcRegister = 6 /\ yRegister = 9
  /\ programOutput = <<>> /\ running

\* C25: after MMU.setProgram with no bytes the CPU stays idle: until the
\* next reset no pulse fetches or decodes an instruction, and A, X, Y, PC
\* and the stage keep their values.
C25_EmptyProgramIdle ==
  [][(loadedCode = <<>> /\ runs > 0 /\ runs' = runs) =>
       UNCHANGED <<aRegister, xRegister, yRegister, pcRegister, step, opcode,
                   iRegister>>]_vars

\* C26: with no device sending interrupts, the runs of one program from
\* reset under one carry option agree: all of them end with the same A, X,
\* Y, Z, C, PC, memory cells and program output.
C26_RunsAgree == \A code \in DOMAIN finals : Cardinality(finals[code]) <= 1

\* C27: when TXA has been executed right after TAX, A holds the value it
\* held before the pair and X holds it too; the pulse that executes TAX
\* copies A to X and the one that executes TXA copies X to A, and neither
\* changes Y, Z, C or the memory or issues a memory operation.
C27_TaxTxaKeepsA ==
  /\ []((step = "InterruptCheck" /\ iRegister = "TXA"
         /\ prevInstr.iRegister = "TAX") =>
          (aRegister = prevInstr.aRegister /\ xRegister = prevInstr.aRegister))
  /\ [][/\ (phase = "CPU" /\ phase' = "MEM" /\ PulseDoes = "Execute"
             /\ iRegister \in {"TAX", "TXA"}) =>
             /\ UNCHANGED <<yRegister, zRegister, cRegister, MAR, MDR,
                            isReadPending, isWritePending>>
             /\ iRegister = "TAX" =>
                  (aRegister' = aRegister /\ xRegister' = aRegister)
             /\ iRegister = "TXA" =>
                  (xRegister' = xRegister /\ aRegister' = xRegister)
        /\ (phase = "MEM" /\ iRegister \in {"TAX", "TXA"} /\ step # "Fetch") =>
             MEMORY' = MEMORY]_vars

\* TAX, TXA have been executed with A = 0x80, Y = 9.
C27_Witness ==
  /\ step = "InterruptCheck" /\ iRegister = "TXA"
  /\ prevInstr.iRegister = "TAX" /\ prevInstr.aRegister = 128
  /\ aRegister = 128 /\ xRegister = 128 /\ yRegister = 9

\* C28: a run of A2 05 EC 20 00 D0 02 EA EA 00 from reset comes to a stop,
\* and it is stopped with X = 0x05, C set and Z clear, by the BRK at 0x0009:
\* CPX reads 0 from 0x0020 and clears Z, BNE moves PC from 7 to 9, no NOP
\* is ever decoded, and the one pulse that executes BRK stops the system.
C28_BranchTakenRun ==
  /\ [](iRegister # "NOP")
  /\ []((runs > 0 /\ ~running) =>
          /\ xRegister = 5 /\ cRegister /\ ~zRegister
          /\ iRegister = "BRK" /\ pcRegister = 10)
  /\ [][(phase = "CPU" /\ phase' = "MEM" /\ PulseDoes = "Execute") =>
          /\ (iRegister = "CPX" /\ currentCyclePulseCount = 1) =>
               (MAR = 32 /\ MDR = 0 /\ ~zRegister' /\ cRegister')
          /\ iRegister = "BNE" => (pcRegister = 7 /\ pcRegister' = 9)
          /\ iRegister = "BRK" => (pcRegister = 10 /\ ~running')]_vars
  /\ [](isRunning => <>(~running))

\* The run has stopped at its BRK.
C28_Witness ==
  /\ runs = 1 /\ ~running /\ ~isRunning /\ loadedCode = BranchTaken.code
  /\ iRegister = "BRK" /\ xRegister = 5 /\ cRegister /\ ~zRegister
  /\ consoleOutput = <<>>

\* C29: when a micro-op is done in Execute, the next stage is Writeback if
\* and only if writeAddress and writeValue are both set (not null), a value
\* of 0x00 and the address 0x0000 included, and InterruptCheck otherwise.
C29_WritebackGate ==
  [][(phase = "CPU" /\ phase' = "MEM" /\ PulseDoes = "Execute"
       /\ step' # "Execute") =>
       /\ step' \in {"Writeback", "InterruptCheck"}
       /\ step' = "Writeback" <=> (writeAddress' # Null /\ writeValue' # Null)
     ]_vars

\* C30: one pulse of the InterruptCheck stage leaves pendingInterrupt
\* empty.  When the pending interrupt is the keyboard's and its data is the
\* byte of q or Q the pulse stops the system; in every other case (none
\* pending, another key, another device) it moves the stage to Fetch and
\* the system keeps running.  Either way A, X, Y, Z, C and PC keep their
\* values, no memory operation is issued, and the Memory pulse of the tick
\* changes no cell.
C30_InterruptCheck ==
  [][/\ (phase = "CPU" /\ phase' = "MEM" /\ PulseDoes = "InterruptCheck") =>
          /\ pendingInterrupt' = NoInterrupt
          /\ UNCHANGED <<aRegister, xRegister, yRegister, zRegister, cRegister,
                         pcRegister, MAR, MDR>>
          /\ ~isReadPending' /\ ~isWritePending'
          /\ IF /\ pendingInterrupt # NoInterrupt
                /\ pendingInterrupt.deviceName = "Keyboard"
                /\ pendingInterrupt.data \in {KeyLowerQ, KeyUpperQ}
             THEN ~running' /\ ~isRunning' /\ currentProgram' = NoProgram
             ELSE step' = "Fetch" /\ currentCyclePulseCount' = 0 /\ running'
     /\ (phase = "MEM" /\ ~isReadPending /\ ~isWritePending) =>
          MEMORY' = MEMORY]_vars

\* The first InterruptCheck after the keyboard's q was accepted has stopped
\* the run, at the end of LDX #$05.
C30_Witness ==
  /\ ~running /\ runs = 1 /\ step = "InterruptCheck" /\ iRegister = "LDX"
  /\ xRegister = 5 /\ pendingInterrupt = NoInterrupt /\ qChecks = 1
  /\ loadedCode = LoadAndWait.code

\* The operand bytes of an opcode of the table; SYS has two when X is 3.
OperandCount(op, x) ==
  IF op \in {OpLDAabs, OpSTA, OpADC, OpLDXabs, OpLDYabs, OpCPX, OpINC} THEN 2
  ELSE IF op \in {OpLDAimm, OpLDXimm, OpLDYimm, OpBNE} THEN 1
  ELSE IF op = OpSYS /\ x = 3 THEN 2
  ELSE 0

\* C31: while fetchCount > 0 a pulse of the CPU only serves the operand
\* load: the stage, the registers, the flags, the output and the deferred
\* write stay as they are; the first pulse of a byte triggers the read at
\* PC and the second stores the byte at PC in operand[currentFetch] and
\* steps PC.  When the micro-op is about to be invoked for the first time,
\* PC is the opcode's address + 1 + N, the N operand bytes are those that
\* follow the opcode in memory, in order, and the cycle has taken 3 + 2N
\* pulses, N being the operand count of the opcode table (SYS: 2 when X = 3,
\* else 0).
C31_OperandFetch ==
  /\ [][(phase = "CPU" /\ phase' = "MEM" /\ PulseDoes = "OperandFetch") =>
          /\ UNCHANGED <<step, aRegister, xRegister, yRegister, zRegister,
                         cRegister, iRegister, opcode, programOutput,
                         writeAddress, writeValue, running>>
          /\ ~isWritePending'
          /\ IF currentCyclePulseCount = 0
             THEN /\ MAR' = pcRegister /\ isReadPending'
                  /\ UNCHANGED <<pcRegister, operand, fetchCount, currentFetch>>
             ELSE /\ operand' = [operand EXCEPT
                                   ![currentFetch] = Cell(MEMORY, pcRegister)]
                  /\ pcRegister' = pcRegister + 1
                  /\ ~isReadPending']_vars
  /\ []((step = "Execute" /\ fetchCount = 0 /\ currentCyclePulseCount = 0) =>
          LET N == OperandCount(opcode, xRegister)
          IN /\ pcRegister = opcodeAddress + 1 + N
             /\ cycle.operands = N
             /\ cycle.ticks = 3 + 2 * N
             /\ \A i \in 0..(N - 1) :
                  operand[i] = Cell(MEMORY, opcodeAddress + 1 + i))

\* SYS with X = 3, fetched at 0x0002, is about to print: its two operand
\* bytes 0x06, 0x00 are loaded and PC is 5.
C31_Witness ==
  /\ phase = "CPU" /\ step = "Execute" /\ iRegister = "SYS" /\ xRegister = 3
  /\ fetchCount = 0 /\ currentCyclePulseCount = 0
  /\ opcodeAddress = 2 /\ pcRegister = 5
  /\ operand[0] = 6 /\ operand[1] = 0 /\ cycle.operands = 2

\* C32: LDA, LDX and LDY set their own register and nothing else.  The
\* immediate forms (A9, A2, A0) set it to operand[0] on their one pulse; the
\* absolute forms (AD, AE, AC) trigger the read of the cell at
\* operand[1] * 256 + operand[0] on their first pulse, changing no register,
\* and set it on the second to the value the cell then holds.  The two other
\* registers, Z, C, PC, the output and the memory cells stay as they are,
\* and no write is issued.
C32_LoadsOwnRegister ==
  [][/\ (phase = "CPU" /\ phase' = "MEM" /\ PulseDoes = "Execute"
          /\ iRegister \in {"LDA", "LDX", "LDY"}) =>
          LET address == operand[1] * 256 + operand[0]
              loaded == IF opcode \in {OpLDAimm, OpLDXimm, OpLDYimm}
                        THEN operand[0] ELSE Cell(MEMORY, address)
              done == opcode \in {OpLDAimm, OpLDXimm, OpLDYimm}
                        \/ currentCyclePulseCount = 1
          IN /\ UNCHANGED <<zRegister, cRegister, pcRegister, programOutput,
                            writeAddress, writeValue, running>>
             /\ ~isWritePending'
             /\ aRegister' = IF done /\ iRegister = "LDA" THEN loaded
                             ELSE aRegister
             /\ xRegister' = IF done /\ iRegister = "LDX" THEN loaded
                             ELSE xRegister
             /\ yRegister' = IF done /\ iRegister = "LDY" THEN loaded
                             ELSE yRegister
             /\ done <=> step' # "Execute"
             /\ ~done => (MAR' = address /\ isReadPending')
     /\ (phase = "MEM" /\ iRegister \in {"LDA", "LDX", "LDY"}
          /\ step \in {"Execute", "Writeback", "InterruptCheck"}) =>
          MEMORY' = MEMORY]_vars

\* LDY $FFFF has loaded the 0x81 that STA had stored there; X holds it from
\* LDX $FFFF, and Z and C are still set from the CPX at the program's start.
C32_Witness ==
  /\ step = "InterruptCheck" /\ iRegister = "LDY" /\ opcode = OpLDYabs
  /\ operand[0] = 255 /\ operand[1] = 255
  /\ yRegister = 129 /\ xRegister = 129 /\ aRegister = 129
  /\ zRegister /\ cRegister /\ pcRegister = 18

\* C33: the address held by MAR, whoever latched it (opcode fetch, operand
\* fetch, a micro-op, Writeback, the program load), is one of the 65 536
\* cells, 0..65535.
C33_MarInRange == MAR \in Address

\* The characters of the string at `start`: the cells before the first 0x00.
RECURSIVE StringLength(_, _)
StringLength(mem, start) ==
  IF Cell(mem, start) \in 1..255 THEN 1 + StringLength(mem, start + 1) ELSE 0

\* The pulses of the Execute stage, by instruction: 1 for the immediate
\* loads, the transfers, NOP, BNE, BRK and SYS with X = 1; 2 for the absolute
\* loads, STA, ADC, CPX and INC; L + 2 for a string print of L characters.
ExecutePulses ==
  CASE iRegister \in {"TXA", "TYA", "TAX", "TAY", "NOP", "BNE", "BRK"} -> 1
    [] iRegister \in {"LDA", "LDX", "LDY"} ->
         IF opcode \in {OpLDAimm, OpLDXimm, OpLDYimm} THEN 1 ELSE 2
    [] iRegister \in {"STA", "ADC", "CPX", "INC"} -> 2
    [] iRegister = "SYS" /\ xRegister = 1 -> 1
    [] iRegister = "SYS" /\ xRegister = 2 -> StringLength(MEMORY, yRegister) + 2
    [] iRegister = "SYS" /\ xRegister = 3 ->
         StringLength(MEMORY, operand[1] * 256 + operand[0]) + 2
    [] OTHER -> 1

\* C34: when an instruction reaches InterruptCheck (or, for BRK, stops the
\* run) its cycle has taken 2 pulses of Fetch, 1 of Decode, 2 per operand
\* byte, the pulses of Execute given above and 1 of Writeback when the
\* instruction latched a write (INC does, no other instruction does); the
\* InterruptCheck stage then takes 1 pulse.
C34_TicksPerInstruction ==
  /\ []((/\ step = "InterruptCheck" /\ (running \/ iRegister = "BRK")
         /\ ~(iRegister = "SYS" /\ xRegister \notin {1, 2, 3})) =>
          cycle.ticks = 2 + 1 + 2 * OperandCount(opcode, xRegister)
                          + ExecutePulses
                          + (IF iRegister = "INC" THEN 1 ELSE 0))
  /\ [][(phase = "CPU" /\ phase' = "MEM" /\ PulseDoes = "InterruptCheck"
          /\ running') => step' = "Fetch"]_vars

\* C35: outside the program load, a Memory pulse that has a write to commit
\* commits the write of the STA or the INC that has just executed: the cell
\* at the instruction's operand address receives A for STA and its old value
\* + 1 modulo 256 for INC, and every other cell stays as it is; a Memory
\* pulse with no write to commit changes no cell.  No other instruction has
\* a write committed.
C35_OnlyStaAndIncWrite ==
  [][(phase = "MEM" /\ phase' = "INT" /\ ~_isLoading) =>
       LET address == operand[1] * 256 + operand[0]
       IN /\ ~isWritePending => MEMORY' = MEMORY
          /\ isWritePending =>
               /\ iRegister \in {"STA", "INC"}
               /\ MAR = address
               /\ \A a \in (DOMAIN MEMORY \cup DOMAIN MEMORY') \ {address} :
                    Cell(MEMORY', a) = Cell(MEMORY, a)
               /\ iRegister = "STA" => Cell(MEMORY', address) = aRegister
               /\ iRegister = "INC" =>
                    Cell(MEMORY', address) = (Cell(MEMORY, address) + 1) % 256
     ]_vars

\* C36: between two resets an interrupt latched in pendingInterrupt stays
\* there until a pulse of the InterruptCheck stage takes it: no pulse of the
\* InterruptController, whatever is waiting, and no other pulse puts another
\* interrupt or none in its place.
C36_PendingKept ==
  [][(pendingInterrupt # NoInterrupt /\ pendingInterrupt' # pendingInterrupt
       /\ runs' = runs) =>
       (phase = "CPU" /\ PulseDoes = "InterruptCheck"
        /\ pendingInterrupt' = NoInterrupt)]_vars

\* C37: when a Memory pulse begins at most one of isReadPending and
\* isWritePending is set; when the tick is over isReadPending is clear, and
\* isWritePending is set only while a program is loading.
C37_PendingFlags ==
  /\ phase = "MEM" => ~(isReadPending /\ isWritePending)
  /\ phase \in {"INT", "CPU"} =>
       (~isReadPending /\ (isWritePending => _isLoading))

\* The tick of INC's Writeback is over: the write of 0x08 to 0x0001 is
\* committed and neither flag is set.
C37_Witness ==
  /\ phase = "CPU" /\ step = "InterruptCheck" /\ iRegister = "INC"
  /\ MAR = 1 /\ MDR = 8 /\ Cell(MEMORY, 1) = 8
  /\ ~isReadPending /\ ~isWritePending /\ ~_isLoading

\* C38: a run that follows the reset of a program selection goes, tick
\* after tick, through the registers, flags, PC, memory cells and output
\* that the run of the same program went through on the freshly constructed
\* machine.
C38_RunLikeFresh ==
  (thisRun.code # <<>> /\ thisRun.code = freshRun.code) =>
    \A i \in 1..Len(thisRun.ticks) :
      i <= Len(freshRun.ticks) /\ thisRun.ticks[i] = freshRun.ticks[i]

\* The interrupt left of `interrupt` when every interrupt other than the
\* keyboard's q or Q is taken away.
QuitOnly(interrupt) == IF IsQuitKey(interrupt) THEN interrupt ELSE NoInterrupt

\* C39: interrupts other than the keyboard's q or Q have no influence on the
\* run.  A pulse of the CPU leaves A, X, Y, Z, C, PC, the stage, the output,
\* the memory registers and the running flag as the pulse would leave them
\* had those interrupts never been accepted, and after a pulse of the
\* InterruptController a quit key is pending exactly when one would be
\* pending had those interrupts never been accepted.
C39_NonQuitIgnored ==
  [][/\ (phase = "CPU" /\ phase' = "MEM") =>
          LET n == pulse([Machine EXCEPT
                            !.pendingInterrupt = QuitOnly(pendingInterrupt),
                            !.waitingInterrupts =
                               SelectSeq(waitingInterrupts, IsQuitKey)])
          IN <<aRegister', xRegister', yRegister', zRegister', cRegister',
               pcRegister', step', programOutput', consoleOutput', running',
               MAR', MDR', isReadPending', isWritePending'>>
             = <<n.aRegister, n.xRegister, n.yRegister, n.zRegister,
                 n.cRegister, n.pcRegister, n.step, n.programOutput,
                 n.consoleOutput, n.running, n.MAR, n.MDR, n.isReadPending,
                 n.isWritePending>>
     /\ (phase = "INT" /\ phase' = "CPU") =>
          IsQuitKey(pendingInterrupt')
            = IsQuitKey(setInterrupt(QuitOnly(pendingInterrupt),
                                     Arbitrate(SelectSeq(waitingInterrupts,
                                                         IsQuitKey),
                                               -1, NoInterrupt)))]_vars

\* C40: a string print of SYS (X = 2 or 3) always finishes: while it
\* executes, the address it reads is one of 0..65535 and Memory completes
\* the read, and the pipeline goes on to InterruptCheck.
C40_SysPrintFinishes ==
  /\ []((iRegister = "SYS" /\ xRegister \in {2, 3} /\ step = "Execute") =>
          (MAR \in Address /\ ~crashed))
  /\ []((iRegister = "SYS" /\ xRegister \in {2, 3} /\ step = "Execute") =>
          <>(step = "InterruptCheck"))

====
